---------------------------- MODULE Spec2Model ----------------------------
(***************************************************************************)
(* A model of scripts/extract_test_fixture.py: the extraction of a small,  *)
(* anonymized fixture from the FCC ULS archives.                           *)
(*                                                                         *)
(* Text is modelled as it is in the program: a string is a sequence of     *)
(* one-character strings, so that splitting, stripping and joining are     *)
(* computed and not assumed.  Python's None is the value None below, which *)
(* no parsed text can equal.                                               *)
(***************************************************************************)
EXTENDS Integers, Sequences, FiniteSets, TLC

VARIABLES
    \* ---- the arguments of main and the cache directory
    service_name,     \* the stem of the one archive of the cache directory
    count,            \* --count
    seed,             \* --seed
    zip,              \* the archive: record type -> inner file
    \* ---- the process
    hashseed,         \* the hash seed of the running interpreter
    run,              \* 1 for the first run, 2 for the second
    first_run,        \* what the first run left behind
    \* ---- extract_service and extract_fixture
    pc,               \* where the run is
    loop_i,           \* the index of the loop the run is in
    loop_j,           \* the index of the record within its file
    all_records,      \* record type -> list of [type, fields, raw]
    selected_usis,    \* the selection
    rng,              \* the state of the random module
    remaining,        \* count - len(selected) in select_sample_licenses
    usi_callsign_map, \* usi -> fake callsign
    output_records,   \* record type -> list of anonymized lines
    stats,            \* record type -> number of lines written
    files,            \* the output files: record type -> lines
    manifest,         \* what MANIFEST.md holds
    \* ---- read_dat_from_zip applied to one inner file
    rd_file,          \* the inner file: [present, lines, failAt]
    rd_records,       \* the list read_dat_from_zip returned
    rd_pc,            \* "call" | "returned"
    \* ---- the callsign formats applied to one hash value
    cs_h,             \* the hash value
    cs_amateur,       \* the amateur callsign made from it
    cs_gmrs,          \* the GMRS callsign made from it
    cs_pc             \* "call" | "returned"

in_vars == <<service_name, count, seed, zip>>

run_vars == <<hashseed, run, first_run>>

pipe_vars == <<pc, loop_i, loop_j, all_records, selected_usis, rng, remaining,
               usi_callsign_map, output_records, stats, files, manifest>>

rd_vars == <<rd_file, rd_records, rd_pc>>

cs_vars == <<cs_h, cs_amateur, cs_gmrs, cs_pc>>

fn_vars == <<rd_vars, cs_vars>>

vars == <<in_vars, run_vars, pipe_vars, rd_vars, cs_vars>>

(***************************************************************************)
(* Bounds of the model.                                                    *)
(***************************************************************************)
\* SpecRead: the lines of a stream
MaxLines == 3

\* Spec: the HD records of an archive
MaxHD == 5

\* Spec: the largest --count
MaxCount == 10

\* Spec: the hash seeds a process may draw are 0..MaxHashSeed
MaxHashSeed == 1

\* SpecSample: the sizes of the status buckets and the largest --count
MaxActive == 64

MaxExpired == 30

MaxCancelled == 10

MaxSampleCount == 92

\* SpecCallsign: the hash values are k * 40009 + 7, |k| <= MaxHashK
MaxHashK == 1000

(***************************************************************************)
(* Strings.                                                                *)
(***************************************************************************)
None == <<"None">>

\* Python truthiness of an Optional[str]: None and "" are false.
Truthy(s) == s # None /\ s # <<>>

Whitespace == {" ", "\t", "\n", "\r"}

CRLF == {"\r", "\n"}

RECURSIVE RStrip(_, _)
\* str.rstrip(chars)
RStrip(s, chars) ==
    IF s # <<>> /\ s[Len(s)] \in chars
    THEN RStrip(SubSeq(s, 1, Len(s) - 1), chars)
    ELSE s

RECURSIVE LStrip(_, _)
\* str.lstrip(chars)
LStrip(s, chars) ==
    IF s # <<>> /\ s[1] \in chars
    THEN LStrip(SubSeq(s, 2, Len(s)), chars)
    ELSE s

\* str.strip()
Strip(s) == LStrip(RStrip(s, Whitespace), Whitespace)

RECURSIVE Split(_, _)
\* str.split(sep) for a one-character separator: never empty.
Split(s, sep) ==
    IF \E i \in 1..Len(s) : s[i] = sep
    THEN LET i == CHOOSE k \in 1..Len(s) :
                      s[k] = sep /\ \A m \in 1..(k - 1) : s[m] # sep
         IN  <<SubSeq(s, 1, i - 1)>> \o Split(SubSeq(s, i + 1, Len(s)), sep)
    ELSE <<s>>

RECURSIVE Join(_, _)
\* sep.join(fields)
Join(fields, sep) ==
    IF fields = <<>> THEN <<>>
    ELSE IF Len(fields) = 1 THEN fields[1]
    ELSE fields[1] \o <<sep>> \o Join(Tail(fields), sep)

(***************************************************************************)
(* Record schema.                                                          *)
(***************************************************************************)
HD == <<"H", "D">>
EN == <<"E", "N">>
AM == <<"A", "M">>
HS == <<"H", "S">>
CO == <<"C", "O">>
SC == <<"S", "C">>
LA == <<"L", "A">>
SF == <<"S", "F">>

\* The keys of RECORD_TYPES in the order the dict holds them.
RECORD_TYPE_KEYS == <<HD, EN, AM, HS, CO, SC, LA, SF>>

\* RECORD_TYPES: record type -> 0-indexed position of the USI field.
RECORD_TYPES == [rt \in {RECORD_TYPE_KEYS[i] : i \in 1..Len(RECORD_TYPE_KEYS)} |-> 1]

VALID_RECORD_PREFIXES ==
    DOMAIN RECORD_TYPES \cup
    {<<"A", "D">>, <<"L", "O">>, <<"L", "2">>, <<"L", "3">>, <<"L", "4">>,
     <<"L", "5">>, <<"L", "6">>}

\* parse_dat_line: (record_type, fields); fields are 0-indexed in the
\* program and 1-indexed here.
parse_dat_line(line) ==
    LET fields == Split(RStrip(line, CRLF), "|")
    IN  [record_type |-> fields[1], fields |-> fields]

\* get_usi: the field at the type's USI position, or None.
get_usi(record_type, fields) ==
    LET pos == IF record_type \in DOMAIN RECORD_TYPES
               THEN RECORD_TYPES[record_type] ELSE 1
    IN  IF Len(fields) > pos THEN fields[pos + 1] ELSE None

(***************************************************************************)
(* read_dat_from_zip.                                                      *)
(*                                                                         *)
(* An inner file is [present, lines, failAt]: present says whether the     *)
(* archive lists it, lines are its raw lines (decoding latin-1 maps each   *)
(* byte to one character, so a raw line is its text), and failAt says      *)
(* where reading raises: 0 never, k in 1..Len(lines) when the k-th line is *)
(* to be read (k = 1 covers a failure to open the archive or the member),  *)
(* Len(lines)+1 at the end of the stream (a CRC mismatch).                 *)
(***************************************************************************)
\* The tuple appended to records for a pending line.
RecordOf(pending_line) ==
    LET p == parse_dat_line(pending_line)
    IN  [type |-> p.record_type, fields |-> p.fields, raw |-> pending_line]

\* Whether the loop takes the continuation branch for this line.
IsContinuationLine(line) ==
    LET record_type == parse_dat_line(line).record_type
    IN  record_type # <<>> /\ record_type \notin VALID_RECORD_PREFIXES

\* One iteration of the loop over the lines of the inner file.
ReadLine(st, line) ==
    IF Strip(line) = <<>> THEN st
    ELSE IF IsContinuationLine(line)
    THEN IF Truthy(st.pending_line)
         THEN [st EXCEPT !.pending_line =
                             RStrip(@, CRLF) \o <<" ">> \o Strip(line)]
         ELSE st
    ELSE [pending_line |-> line,
          records |-> IF Truthy(st.pending_line)
                      THEN Append(st.records, RecordOf(st.pending_line))
                      ELSE st.records]

RECURSIVE ReadLines(_, _, _)
\* The loop over the first n lines.
ReadLines(lines, n, st) ==
    IF n = 0 THEN st
    ELSE ReadLine(ReadLines(lines, n - 1, st), lines[n])

\* What the except clause leaves in records when reading raises.
RecordsOnFailure(st) == st.records

read_dat_from_zip(file) ==
    IF ~file.present THEN <<>>
    ELSE LET failed == file.failAt # 0
             n  == IF failed THEN file.failAt - 1 ELSE Len(file.lines)
             st == ReadLines(file.lines, n,
                             [pending_line |-> None, records |-> <<>>])
         IN  IF failed THEN RecordsOnFailure(st)
             ELSE IF Truthy(st.pending_line)
             THEN Append(st.records, RecordOf(st.pending_line))
             ELSE st.records

(***************************************************************************)
(* Python's built-in hash.                                                 *)
(*                                                                         *)
(* hash() of a str, and of a tuple that holds a str, depends on the hash   *)
(* seed the interpreter draws when the process starts (PYTHONHASHSEED      *)
(* unset).  The variable hashseed is that value; the mixing below stands   *)
(* for SipHash and the tuple hash, 20 bits wide and signed as        *)
(* Py_hash_t is.                                                           *)
(***************************************************************************)
CharTable ==
    << "0", "1", "2", "3", "4", "5", "6", "7", "8", "9",
       "A", "B", "C", "D", "E", "F", "G", "H", "I", "J", "K", "L", "M",
       "N", "O", "P", "Q", "R", "S", "T", "U", "V", "W", "X", "Y", "Z",
       "a", "b", "c", "d", "e", "f", "g", "h", "i", "j", "k", "l", "m",
       "n", "o", "p", "q", "r", "s", "t", "u", "v", "w", "x", "y", "z",
       "_", " ", "|", "-", ".", "@", ",", ":", "\n", "\r", "\t" >>

\* The place of each character in CharTable.
OrdTable == [c \in {CharTable[n] : n \in 1..Len(CharTable)} |->
                CHOOSE n \in 1..Len(CharTable) : CharTable[n] = c]

\* ord(c), up to a renumbering of the characters.
Ord(c) == IF c \in DOMAIN OrdTable THEN OrdTable[c] ELSE 0

HashMod == 2^20

RECURSIVE StrHashFrom(_, _)
StrHashFrom(s, n) ==
    IF n = 0 THEN (5381 + 977 * hashseed) % HashMod
    ELSE (StrHashFrom(s, n - 1) * 33 + Ord(s[n]) * (2 * hashseed + 1)
          + hashseed) % HashMod

\* hash(s) for a str s, unsigned.
StrHash(s) == StrHashFrom(s, Len(s))

\* hash(None): the address of the singleton, which differs between
\* processes as the hash of a str does.
NoneHash == (40503 + 7 * hashseed) % HashMod

\* hash(x) for x a str or None, unsigned.
ObjHash(x) == IF x = None THEN NoneHash ELSE StrHash(x)

Signed(x) == x - (HashMod \div 2)

\* hash((s, tag))
hash2(s, tag) == Signed(((StrHash(s) * 31 + StrHash(tag)) * 17 + 3) % HashMod)

\* hash((s, index, tag))
hash3(s, index, tag) ==
    Signed((((((StrHash(s) * 31 + index) % HashMod) * 31 + StrHash(tag)) * 17)
            + 3) % HashMod)

(***************************************************************************)
(* Formatting of numbers and letters.                                      *)
(***************************************************************************)
UpperLetters ==
    << "A", "B", "C", "D", "E", "F", "G", "H", "I", "J", "K", "L", "M",
       "N", "O", "P", "Q", "R", "S", "T", "U", "V", "W", "X", "Y", "Z" >>

LowerLetters ==
    << "a", "b", "c", "d", "e", "f", "g", "h", "i", "j", "k", "l", "m",
       "n", "o", "p", "q", "r", "s", "t", "u", "v", "w", "x", "y", "z" >>

DigitChars == << "0", "1", "2", "3", "4", "5", "6", "7", "8", "9" >>

Range(f) == {f[i] : i \in DOMAIN f}

\* chr(65 + k) as a one-character string, 0 <= k < 26
Chr65(k) == <<UpperLetters[k + 1]>>

\* h >> k on a Python int: the floor of h / 2^k
ShiftRight(h, k) == h \div (2^k)

RECURSIVE DecStr(_)
\* str(n) for n >= 0
DecStr(n) ==
    IF n < 10 THEN <<DigitChars[n + 1]>>
    ELSE DecStr(n \div 10) \o <<DigitChars[(n % 10) + 1]>>

\* The digits of n without the padding to width.
Unpadded(n, width) == DecStr(n)

\* f"{n:0{width}d}" for n >= 0
ZeroPad(n, width) ==
    LET d == DecStr(n)
    IN  IF Len(d) >= width THEN d
        ELSE [i \in 1..width |->
                 IF i <= width - Len(d) THEN "0" ELSE d[i - (width - Len(d))]]

(***************************************************************************)
(* The pools of fake data and the fixed strings.                           *)
(***************************************************************************)
\* FIRST_NAMES
FIRST_NAMES ==
    << <<"J", "O", "H", "N">>, <<"M", "A", "R", "Y">>,
       <<"J", "A", "M", "E", "S">>,
       <<"P", "A", "T", "R", "I", "C", "I", "A">>,
       <<"R", "O", "B", "E", "R", "T">>,
       <<"J", "E", "N", "N", "I", "F", "E", "R">>,
       <<"M", "I", "C", "H", "A", "E", "L">>, <<"L", "I", "N", "D", "A">>,
       <<"W", "I", "L", "L", "I", "A", "M">>,
       <<"E", "L", "I", "Z", "A", "B", "E", "T", "H">>,
       <<"D", "A", "V", "I", "D">>, <<"B", "A", "R", "B", "A", "R", "A">>,
       <<"R", "I", "C", "H", "A", "R", "D">>, <<"S", "U", "S", "A", "N">>,
       <<"J", "O", "S", "E", "P", "H">>,
       <<"J", "E", "S", "S", "I", "C", "A">>,
       <<"T", "H", "O", "M", "A", "S">>, <<"S", "A", "R", "A", "H">>,
       <<"C", "H", "A", "R", "L", "E", "S">>, <<"K", "A", "R", "E", "N">>,
       <<"C", "H", "R", "I", "S", "T", "O", "P", "H", "E", "R">>,
       <<"N", "A", "N", "C", "Y">>, <<"D", "A", "N", "I", "E", "L">>,
       <<"L", "I", "S", "A">> >>

\* LAST_NAMES
LAST_NAMES ==
    << <<"S", "M", "I", "T", "H">>, <<"J", "O", "H", "N", "S", "O", "N">>,
       <<"W", "I", "L", "L", "I", "A", "M", "S">>,
       <<"B", "R", "O", "W", "N">>, <<"J", "O", "N", "E", "S">>,
       <<"G", "A", "R", "C", "I", "A">>, <<"M", "I", "L", "L", "E", "R">>,
       <<"D", "A", "V", "I", "S">>,
       <<"R", "O", "D", "R", "I", "G", "U", "E", "Z">>,
       <<"M", "A", "R", "T", "I", "N", "E", "Z">>,
       <<"H", "E", "R", "N", "A", "N", "D", "E", "Z">>,
       <<"L", "O", "P", "E", "Z">>,
       <<"G", "O", "N", "Z", "A", "L", "E", "Z">>,
       <<"W", "I", "L", "S", "O", "N">>,
       <<"A", "N", "D", "E", "R", "S", "O", "N">>,
       <<"T", "H", "O", "M", "A", "S">>, <<"T", "A", "Y", "L", "O", "R">>,
       <<"M", "O", "O", "R", "E">>, <<"J", "A", "C", "K", "S", "O", "N">>,
       <<"M", "A", "R", "T", "I", "N">>, <<"L", "E", "E">>,
       <<"P", "E", "R", "E", "Z">>,
       <<"T", "H", "O", "M", "P", "S", "O", "N">>,
       <<"W", "H", "I", "T", "E">> >>

\* CITIES
CITIES ==
    << <<"A", "N", "Y", "T", "O", "W", "N">>,
       <<"S", "P", "R", "I", "N", "G", "F", "I", "E", "L", "D">>,
       <<"R", "I", "V", "E", "R", "S", "I", "D", "E">>,
       <<"O", "A", "K", "V", "I", "L", "L", "E">>,
       <<"M", "A", "P", "L", "E", "W", "O", "O", "D">>,
       <<"F", "A", "I", "R", "V", "I", "E", "W">>,
       <<"C", "L", "E", "A", "R", "W", "A", "T", "E", "R">>,
       <<"L", "A", "K", "E", "W", "O", "O", "D">>,
       <<"H", "I", "L", "L", "D", "A", "L", "E">>,
       <<"S", "U", "N", "N", "Y", "V", "A", "L", "E">>,
       <<"B", "R", "O", "O", "K", "S", "I", "D", "E">>,
       <<"G", "R", "E", "E", "N", "F", "I", "E", "L", "D">> >>

\* STATES
STATES ==
    << <<"C", "A">>, <<"T", "X">>, <<"F", "L">>, <<"N", "Y">>, <<"P", "A">>,
       <<"I", "L">>, <<"O", "H">>, <<"G", "A">>, <<"N", "C">>, <<"M", "I">>,
       <<"N", "J">>, <<"V", "A">> >>

\* AMATEUR_PREFIXES_1LETTER
AMATEUR_PREFIXES_1LETTER ==
    << <<"K">>, <<"N">>, <<"W">>, <<"A">> >>

\* AMATEUR_PREFIXES_2LETTER
AMATEUR_PREFIXES_2LETTER ==
    << <<"K", "A">>, <<"K", "B">>, <<"K", "C">>, <<"K", "D">>, <<"K", "E">>,
       <<"K", "F">>, <<"K", "G">>, <<"K", "I">>, <<"K", "J">>, <<"K", "K">>,
       <<"W", "A">>, <<"W", "B">>, <<"W", "D">>, <<"W", "E">>, <<"W", "F">>,
       <<"W", "G">>, <<"W", "H">>, <<"W", "I">>, <<"W", "J">>, <<"W", "K">>,
       <<"N", "A">>, <<"N", "B">>, <<"N", "C">>, <<"N", "D">>, <<"N", "E">>,
       <<"N", "F">>, <<"N", "G">>, <<"N", "I">>, <<"N", "J">>, <<"N", "K">>,
       <<"A", "A">>, <<"A", "B">>, <<"A", "C">>, <<"A", "D">>, <<"A", "E">>,
       <<"A", "F">>, <<"A", "G">>, <<"A", "I">>, <<"A", "J">>, <<"A", "K">> >>

\* the prefix list of the modern GMRS format
GMRS_PREFIXES ==
    << <<"W", "P">>, <<"W", "Q">>, <<"W", "R">>, <<"W", "S">> >>

TAG_CALLSIGN ==
    << "c", "a", "l", "l", "s", "i", "g", "n" >>

TAG_GMRS_CALLSIGN ==
    << "g", "m", "r", "s", "_", "c", "a", "l", "l", "s", "i", "g", "n" >>

TAG_NAME ==
    << "n", "a", "m", "e" >>

TAG_ADDRESS ==
    << "a", "d", "d", "r", "e", "s", "s" >>

TAG_FRN ==
    << "f", "r", "n" >>

TAG_COMMENT_MULTILINE ==
    << "c", "o", "m", "m", "e", "n", "t", "_", "m", "u", "l", "t", "i",
       "l", "i", "n", "e" >>

PHONE ==
    << "5", "5", "5", "-", "5", "5", "5", "-", "0", "1", "0", "0" >>

EMAIL ==
    << "t", "e", "s", "t", "@", "e", "x", "a", "m", "p", "l", "e", ".",
       "c", "o", "m" >>

MAIN_ST ==
    << " ", "M", "A", "I", "N", " ", "S", "T" >>

COMMENT_ONE_LINE ==
    << "T", "e", "s", "t", " ", "c", "o", "m", "m", "e", "n", "t", " ",
       "f", "o", "r", " ", "f", "i", "x", "t", "u", "r", "e", " ", "d",
       "a", "t", "a", "." >>

COMMENT_MULTI_LINE ==
    << "T", "h", "i", "s", " ", "i", "s", " ", "a", " ", "m", "u", "l",
       "t", "i", "-", "l", "i", "n", "e", " ", "t", "e", "s", "t", " ",
       "c", "o", "m", "m", "e", "n", "t", " ", "t", "h", "a", "t", " ",
       "s", "p", "a", "n", "s", " ", "m", "u", "l", "t", "i", "p", "l",
       "e", " ", "l", "i", "n", "e", "s", ".", "\n", "C", "O", "N", "T",
       "I", "N", "U", "A", "T", "I", "O", "N", ":", " ", "T", "h", "i",
       "s", " ", "l", "i", "n", "e", " ", "t", "e", "s", "t", "s", " ",
       "t", "h", "e", " ", "c", "o", "n", "t", "i", "n", "u", "a", "t",
       "i", "o", "n", " ", "h", "a", "n", "d", "l", "i", "n", "g", " ",
       "i", "n", " ", "t", "h", "e", " ", "p", "a", "r", "s", "e", "r",
       "." >>

(***************************************************************************)
(* Synthetic callsigns, names, addresses and registration numbers.         *)
(***************************************************************************)
\* The suffix letter chr(65 + (h >> k) % 26)
SuffixLetter(h, k) == Chr65(ShiftRight(h, k) % 26)

\* generate_amateur_callsign after the hash is taken (1x2, 1x3, 2x1, 2x2, 2x3)
amateur_callsign_of_hash(h) ==
    LET fmt == h % 5
        digit == DecStr(h % 10)
        p1 == AMATEUR_PREFIXES_1LETTER[(h % Len(AMATEUR_PREFIXES_1LETTER)) + 1]
        p2 == AMATEUR_PREFIXES_2LETTER[(h % Len(AMATEUR_PREFIXES_2LETTER)) + 1]
    IN  CASE fmt = 0 -> p1 \o digit \o SuffixLetter(h, 4) \o SuffixLetter(h, 8)
          [] fmt = 1 -> p1 \o digit \o SuffixLetter(h, 4) \o SuffixLetter(h, 8)
                           \o SuffixLetter(h, 12)
          [] fmt = 2 -> p2 \o digit \o SuffixLetter(h, 4)
          [] fmt = 3 -> p2 \o digit \o SuffixLetter(h, 4) \o SuffixLetter(h, 8)
          [] OTHER   -> p2 \o digit \o SuffixLetter(h, 4) \o SuffixLetter(h, 8)
                           \o SuffixLetter(h, 12)

\* The letters of the modern (4x3) GMRS format.
gmrs_modern_letters(h) ==
    GMRS_PREFIXES[(h % 4) + 1] \o SuffixLetter(h, 4) \o SuffixLetter(h, 8)

\* generate_gmrs_callsign after the hash is taken (3x4 legacy, 4x3 modern)
gmrs_callsign_of_hash(h) ==
    LET fmt == h % 2
    IN  IF fmt = 0
        THEN <<"K">> \o SuffixLetter(h, 4) \o SuffixLetter(h, 8)
                 \o ZeroPad(ShiftRight(h, 12) % 10000, 4)
        ELSE gmrs_modern_letters(h) \o ZeroPad(ShiftRight(h, 12) % 1000, 3)

generate_amateur_callsign(usi, index) ==
    amateur_callsign_of_hash(hash3(usi, index, TAG_CALLSIGN))

generate_gmrs_callsign(usi, index) ==
    gmrs_callsign_of_hash(hash3(usi, index, TAG_GMRS_CALLSIGN))

generate_fake_name(usi) ==
    LET h == hash2(usi, TAG_NAME)
    IN  [first  |-> FIRST_NAMES[(h % Len(FIRST_NAMES)) + 1],
         middle |-> Chr65(ShiftRight(h, 8) % 26),
         last   |-> LAST_NAMES[(ShiftRight(h, 4) % Len(LAST_NAMES)) + 1]]

generate_fake_address(usi) ==
    LET h == hash2(usi, TAG_ADDRESS)
    IN  [street   |-> DecStr((h % 9999) + 1) \o MAIN_ST,
         city     |-> CITIES[(h % Len(CITIES)) + 1],
         state    |-> STATES[(ShiftRight(h, 4) % Len(STATES)) + 1],
         zip_code |-> ZeroPad(90000 + (h % 10000), 5)]

generate_fake_frn(usi) ==
    LET h == hash2(usi, TAG_FRN)
    IN  <<"0", "0", "0">> \o ZeroPad(h % 10000000, 7)

(***************************************************************************)
(* anonymize_record.  Column i of the program is fields[i + 1] here.       *)
(***************************************************************************)
\* fields[i] = v, guarded by len(fields) > i
SetColumn(fields, i, v) ==
    IF Len(fields) > i THEN [fields EXCEPT ![i + 1] = v] ELSE fields

\* fields[i] = v, guarded by len(fields) > i and fields[i]
SetColumnIfSet(fields, i, v) ==
    IF Len(fields) > i /\ fields[i + 1] # <<>>
    THEN [fields EXCEPT ![i + 1] = v] ELSE fields

IsDigitChar(c) == c \in Range(DigitChars)

IsAlphaChar(c) == c \in Range(UpperLetters) \cup Range(LowerLetters)

\* The test of the HS/SC/SF/LA branch for "looks like a callsign".
LooksLikeCallsign(fields, i) ==
    /\ i < Len(fields)
    /\ fields[i + 1] # <<>>
    /\ Len(fields[i + 1]) <= 10
    /\ \E k \in 1..Len(fields[i + 1]) : IsDigitChar(fields[i + 1][k])
    /\ \E k \in 1..Len(fields[i + 1]) : IsAlphaChar(fields[i + 1][k])

\* for i in cols: if i < len(fields) and fields[i]: fields[i] = ""
ClearColumns(fields, cols) ==
    [k \in 1..Len(fields) |->
        IF (k - 1) \in cols /\ fields[k] # <<>> THEN <<>> ELSE fields[k]]

\* for i in cols: if fields[i] looks like a callsign: fields[i] = v
RewriteColumns(fields, cols, v) ==
    [k \in 1..Len(fields) |->
        IF (k - 1) \in cols /\ LooksLikeCallsign(fields, k - 1)
        THEN v ELSE fields[k]]

\* A map that generates a callsign at every call, also for an identifier
\* it already holds.
callsign_map_regenerated(usi, service_code, callsign_map) ==
    LET index == Cardinality(DOMAIN callsign_map)
        made == IF service_code = "ZA"
                THEN generate_gmrs_callsign(usi, index)
                ELSE generate_amateur_callsign(usi, index)
    IN  [u \in DOMAIN callsign_map \cup {usi} |->
            IF u = usi THEN made ELSE callsign_map[u]]

\* The callsign map after the "get or generate" step.
callsign_map_after(usi, service_code, callsign_map) ==
    IF usi \in DOMAIN callsign_map THEN callsign_map
    ELSE LET index == Cardinality(DOMAIN callsign_map)
             made == IF service_code = "ZA"
                     THEN generate_gmrs_callsign(usi, index)
                     ELSE generate_amateur_callsign(usi, index)
         IN  [u \in DOMAIN callsign_map \cup {usi} |->
                 IF u = usi THEN made ELSE callsign_map[u]]

\* The rewrite of an EN record.
anonymize_EN(fields, fake_callsign, name, addr, fake_frn) ==
    LET f1 == SetColumn(fields, 4, fake_callsign)
        f2 == SetColumn(f1, 7, name.last \o <<",", " ">> \o name.first
                                   \o <<" ">> \o name.middle)
        f3 == SetColumn(f2, 8, name.first)
        f4 == SetColumn(f3, 9, name.middle)
        f5 == SetColumn(f4, 10, name.last)
        f6 == SetColumnIfSet(f5, 12, PHONE)
        f7 == SetColumnIfSet(f6, 14, EMAIL)
        f8 == SetColumnIfSet(f7, 15, addr.street)
        f9 == SetColumnIfSet(f8, 16, addr.city)
        f10 == SetColumnIfSet(f9, 17, addr.state)
        f11 == SetColumnIfSet(f10, 18, addr.zip_code)
    IN  SetColumnIfSet(f11, 22, fake_frn)

\* The rewrite of a CO record.
anonymize_CO(fields, usi, fake_callsign) ==
    LET f1 == SetColumn(fields, 3, fake_callsign)
        h  == hash2(usi, TAG_COMMENT_MULTILINE)
    IN  SetColumnIfSet(f1, 5, IF h % 5 = 0 THEN COMMENT_MULTI_LINE
                                           ELSE COMMENT_ONE_LINE)

\* anonymize_record: [line, map], the returned line and the callsign map
\* as the call leaves it.
anonymize_record(raw_line, service_code, callsign_map) ==
    LET p == parse_dat_line(raw_line)
        record_type == p.record_type
        fields == p.fields
    IN  IF Len(fields) < 2
        THEN [line |-> raw_line, map |-> callsign_map]
        ELSE
        LET usi  == fields[2]
            map  == callsign_map_after(usi, service_code, callsign_map)
            fake_callsign == map[usi]
            name == generate_fake_name(usi)
            addr == generate_fake_address(usi)
            fake_frn == generate_fake_frn(usi)
            out ==
              CASE record_type = HD ->
                     ClearColumns(SetColumn(fields, 4, fake_callsign),
                                  {28, 29, 30, 31, 32})
                [] record_type = EN ->
                     anonymize_EN(fields, fake_callsign, name, addr, fake_frn)
                [] record_type = AM -> SetColumn(fields, 4, fake_callsign)
                [] record_type = CO -> anonymize_CO(fields, usi, fake_callsign)
                [] record_type \in {HS, SC, SF, LA} ->
                     RewriteColumns(fields, {3, 4}, fake_callsign)
                [] OTHER -> fields
        IN  [line |-> Join(out, "|"), map |-> map]

(***************************************************************************)
(* Python's random module.  The generator is deterministic in its seed;    *)
(* a linear congruential generator stands for the Mersenne Twister.        *)
(***************************************************************************)
Abs(x) == IF x < 0 THEN -x ELSE x

Min(a, b) == IF a <= b THEN a ELSE b

\* random.seed(a) for an int a: the state depends on abs(a).
random_seed(a) == Abs(a) % 65537

\* The generator's state after one draw.
rng_next(s) == (s * 75 + 74) % 65537

\* One draw of random.sample from its pool: the drawn element leaves the
\* pool and the last live element takes its place.
draw_from_pool(pool, s) ==
    LET n  == Len(pool)
        s1 == rng_next(s)
        d  == (s1 % n) + 1
    IN  [result |-> <<pool[d]>>,
         pool   |-> IF d = n THEN SubSeq(pool, 1, n - 1)
                    ELSE SubSeq(pool, 1, d - 1) \o <<pool[n]>>
                             \o SubSeq(pool, d + 1, n - 1),
         rng    |-> s1]

RECURSIVE sample_from_pool(_, _, _)
\* The loop of random.sample over its pool: k draws without replacement.
\* (k draws are the first k \div 2 draws followed by the others.)
sample_from_pool(pool, k, s) ==
    IF k = 0 THEN [result |-> <<>>, pool |-> pool, rng |-> s]
    ELSE IF k = 1 THEN draw_from_pool(pool, s)
    ELSE LET a == sample_from_pool(pool, k \div 2, s)
             b == sample_from_pool(a.pool, k - (k \div 2), a.rng)
         IN  [result |-> a.result \o b.result, pool |-> b.pool, rng |-> b.rng]

\* Whether random.sample(population, k) raises ValueError.
sample_raises(population, k) == k < 0 \/ k > Len(population)

\* random.sample(population, k) where it does not raise: [result, rng].
random_sample(population, k, s) == sample_from_pool(population, k, s)

RECURSIVE list_of_set(_)
\* list(S) for a set of str and None: the order of the hash table, which
\* follows the hashes of the elements.
list_of_set(S) ==
    IF S = {} THEN <<>>
    ELSE LET x == CHOOSE y \in S : \A z \in S : ObjHash(y) <= ObjHash(z)
         IN  <<x>> \o list_of_set(S \ {x})

(***************************************************************************)
(* int(remaining * 0.7), int(remaining * 0.2), int(remaining * 0.1).       *)
(*                                                                         *)
(* The product is an IEEE-754 double.  The literals 0.2 and 0.1 are stored *)
(* above their value, so the product of an integer with them never falls   *)
(* below the exact product and int() truncates to the exact result.  The   *)
(* literal 0.7 is stored as 0.7 - 0.4 * 2^-53.  When 7 * |r| / 10 is a     *)
(* whole number n, with 2^e <= n < 2^(e+1), the exact product of r and the *)
(* stored literal lies 4 * (|r| / 10) * 2^-53 below n, and rounds to the   *)
(* double below n when that exceeds half the spacing 2^(e-52) of the       *)
(* doubles there; int() then yields n - 1.                                 *)
(***************************************************************************)
RECURSIVE FloorLog2(_)
FloorLog2(n) == IF n < 2 THEN 0 ELSE 1 + FloorLog2(n \div 2)

\* int(r * 0.t): truncation toward zero of the double product.
int_of_product(r, tenths) ==
    LET a == Abs(r)
        n == (tenths * a) \div 10
        rounds_below ==
            /\ tenths = 7
            /\ a > 0
            /\ (tenths * a) % 10 = 0
            /\ 4 * (a \div 10) > 2^FloorLog2(n)
        m == IF rounds_below THEN n - 1 ELSE n
    IN  IF r < 0 THEN -m ELSE m

(***************************************************************************)
(* select_sample_licenses.                                                 *)
(***************************************************************************)
EmptyDict == [k \in {} |-> {}]

DictPut(d, key, value) ==
    [k \in DOMAIN d \cup {key} |-> IF k = key THEN value ELSE d[k]]

\* An HD record the sampler indexes: len(fields) > 5 and a non-empty usi.
Indexed(r) == Len(r.fields) > 5 /\ r.fields[2] # <<>>

\* by_status.get(status, [])
by_status(hd_records, status) ==
    LET of == SelectSeq(hd_records,
                        LAMBDA r : Indexed(r) /\ r.fields[6] = status)
    IN  [k \in 1..Len(of) |-> of[k].fields[2]]

\* by_callsign: the last indexed record with a callsign gives its usi.
by_callsign(hd_records) ==
    LET has(k, c) == Indexed(hd_records[k]) /\ hd_records[k].fields[5] = c
        keys == {hd_records[k].fields[5] : k \in
                    {x \in 1..Len(hd_records) :
                        Indexed(hd_records[x]) /\ hd_records[x].fields[5] # <<>>}}
    IN  [c \in keys |->
            LET last == CHOOSE k \in 1..Len(hd_records) :
                            has(k, c) /\ \A m \in (k + 1)..Len(hd_records) : ~has(m, c)
            IN  hd_records[last].fields[2]]

known_callsigns ==
    { <<"W", "1", "A", "W">>, <<"W", "3", "L", "P", "L">>,
      <<"K", "5", "Z", "D">>, <<"N", "1", "M", "M">>,
      <<"W", "R", "C", "K", "6", "9", "2">>,
      <<"W", "Q", "R", "Z", "8", "5", "5">> }

\* selected after the loop over known_callsigns
known_selected(hd_records) ==
    LET bc == by_callsign(hd_records)
    IN  {bc[c] : c \in known_callsigns \cap DOMAIN bc}

\* The keys of status_counts in order, and the share of each in tenths.
STATUS_ORDER == << <<"A">>, <<"E">>, <<"C">> >>

STATUS_TENTHS == <<7, 2, 1>>

\* status_counts[status]
status_target(rem, b) == int_of_product(rem, STATUS_TENTHS[b])

\* available: the bucket's identifiers not yet selected, in file order
available_of(hd_records, status, selected) ==
    SelectSeq(by_status(hd_records, status), LAMBDA usi : usi \notin selected)

\* The arguments of random.sample for bucket i: [population, k].
bucket_draw(hd_records, b, rem, selected) ==
    LET available == available_of(hd_records, STATUS_ORDER[b], selected)
    IN  [population |-> available,
         k |-> Min(status_target(rem, b), Len(available))]

(***************************************************************************)
(* extract_service and extract_fixture.                                    *)
(***************************************************************************)
\* str.lower() on one character
LowerChar(c) ==
    IF c \in Range(UpperLetters)
    THEN LowerLetters[CHOOSE i \in 1..26 : UpperLetters[i] = c]
    ELSE c

\* needle in haystack
Contains(haystack, needle) ==
    \E i \in 0..(Len(haystack) - Len(needle)) :
        \A k \in 1..Len(needle) : haystack[i + k] = needle[k]

\* service_code
service_code_of(name) ==
    IF Contains([i \in 1..Len(name) |-> LowerChar(name[i])],
                <<"g", "m", "r", "s">>)
    THEN "ZA" ELSE "HA"

\* The keys of a dict filled in the order of RECORD_TYPES.
KeysInOrder(d) == SelectSeq(RECORD_TYPE_KEYS, LAMBDA rt : rt \in DOMAIN d)

\* The types the enrichment walks.
EDGE_CASE_TYPES == <<CO, HS, SC>>

\* rt_usis - selected_usis for one edge-case type
unselected_usis(records, rt, selected) ==
    {get_usi(rt, records[k].fields) : k \in 1..Len(records)} \ selected

\* A draw of the enrichment that takes every identifier not yet selected.
enrich_all(records, rt, selected, s) ==
    LET pool == list_of_set(unselected_usis(records, rt, selected))
    IN  random_sample(pool, Len(pool), s)

\* The draw of the enrichment from one type's records: [result, rng].
enrich_draw(records, rt, selected, s) ==
    LET pool == list_of_set(unselected_usis(records, rt, selected))
    IN  random_sample(pool, Min(5, Len(pool)), s)

\* A filter that keeps every record.
every_record(r, selected) == TRUE

\* The filter's test on one record.
is_selected(r, selected) == get_usi(r.type, r.fields) \in selected

\* A line as the writer puts it in the file.
written_line(line) ==
    IF line # <<>> /\ line[Len(line)] = "\n" THEN line ELSE line \o <<"\n">>

\* stats as extract_service returns it
stats_of(records_by_type) ==
    [rt \in DOMAIN records_by_type |-> Len(records_by_type[rt])]

RECURSIVE SumOver(_, _)
SumOver(f, keys) ==
    IF keys = {} THEN 0
    ELSE LET k == CHOOSE x \in keys : TRUE
         IN  f[k] + SumOver(f, keys \ {k})

\* What MANIFEST.md holds: count, and per service the counts of its files,
\* with their total.
manifest_of(n, name, st) ==
    LET all_stats == IF DOMAIN st = {} THEN EmptyDict
                     ELSE DictPut(EmptyDict, name, st)
    IN  [count |-> n, contents |-> all_stats,
         total |-> SumOver(st, DOMAIN st)]

(***************************************************************************)
(* The inputs the specifications draw from.                                *)
(***************************************************************************)
E == <<>>

\* A line of a DAT file: the fields joined by "|", and the line terminator.
DatLine(fields) == Join(fields, "|") \o <<"\n">>

File(lines) == [present |-> TRUE, lines |-> lines, failAt |-> 0]

FailingFile(lines, failAt) ==
    [present |-> TRUE, lines |-> lines, failAt |-> failAt]

Absent == [present |-> FALSE, lines |-> <<>>, failAt |-> 0]

\* The identifier numbered n.
Usi(n) == DecStr(n)

W1AW == <<"W", "1", "A", "W">>

K5ZD == <<"K", "5", "Z", "D">>

\* The callsign of the n-th HD record: the first `known` records carry
\* callsigns of the allow-list.
CallsignOf(n, known) ==
    IF n <= known /\ n = 1 THEN W1AW
    ELSE IF n <= known /\ n = 2 THEN K5ZD
    ELSE <<"K", DigitChars[(n % 10) + 1], "X", "Y">>

\* The status of the n-th HD record of a pipeline dataset: A, A, E, C, ...
StatusOf(n) == << <<"A">>, <<"A">>, <<"E">>, <<"C">> >>[((n - 1) % 4) + 1]

HDLine(n, callsign, status) ==
    DatLine(<<HD, Usi(n), E, E, callsign, status>>)

\* An HD line long enough to hold the name columns 28..32.
HDLongLine(n, callsign, status) ==
    DatLine(<<HD, Usi(n), E, E, callsign, status>>
            \o [k \in 1..27 |-> IF k \in {23, 25} THEN <<"D", "O", "E">> ELSE E])

\* HD.dat with records 1..n
HDFile(n, known) ==
    File([k \in 1..n |-> HDLine(k, CallsignOf(k, known), StatusOf(k))])

\* EN|usi|||callsign|||entity_name|first|mi|last||phone||email|street|city|
\* state|zip||||frn
ENLine(n, callsign) ==
    DatLine(<<EN, Usi(n), E, E, callsign, E, E,
              <<"D", "O", "E", ",", " ", "J">>, <<"J">>, <<"Q">>,
              <<"D", "O", "E">>, E, <<"5", "5", "5">>, E,
              <<"j", "@", "x">>, <<"1", " ", "E", "L", "M">>, <<"F", "C">>,
              <<"V", "A">>, <<"2", "2", "0", "4", "6">>, E, E, E,
              <<"0", "0", "1", "2">> >>)

\* An EN line of a club: no first name, initial, last name, phone, email.
ENSparseLine(n, callsign) ==
    DatLine(<<EN, Usi(n), E, E, callsign, E, E,
              <<"C", "L", "U", "B">>, E, E, E, E, E, E, E,
              <<"P", "O", " ", "1">>, <<"F", "C">>, <<"V", "A">>, E, E, E, E,
              E>>)

AMLine(n, callsign) == DatLine(<<AM, Usi(n), E, E, callsign, <<"E">> >>)

COLine(n, callsign, text) ==
    DatLine(<<CO, Usi(n), E, callsign, <<"2", "0", "2", "0">>, text>>)

HSLine(n, callsign) ==
    DatLine(<<HS, Usi(n), E, callsign, <<"2", "0", "2", "0">>, <<"L", "I">> >>)

SCLine(n, callsign) == DatLine(<<SC, Usi(n), E, E, callsign, <<"P">> >>)

LALine(n, callsign) == DatLine(<<LA, Usi(n), callsign, <<"x">> >>)

SFLine(n, callsign) == DatLine(<<SF, Usi(n), E, E, callsign, <<"t">> >>)

Note == <<"n", "o", "t", "e">>

HD_FILES ==
    { Absent,
      HDFile(MaxHD, 0),
      HDFile(MaxHD, 2),
      \* a short line, a long line, an identifier twice, an empty identifier
      File(<<HDLine(1, W1AW, <<"A">>), <<"H", "D", "|", "7", "\n">>,
             HDLongLine(2, CallsignOf(2, 0), <<"A">>),
             HDLine(2, CallsignOf(2, 0), <<"E">>),
             DatLine(<<HD, E, E, E, CallsignOf(3, 0), <<"A">> >>)>>),
      \* the stream breaks when its last line is to be read
      FailingFile(HDFile(MaxHD, 2).lines, MaxHD) }

CO_FILES ==
    { Absent,
      \* a comment of an identifier that HD.dat does not hold
      File(<<COLine(1, W1AW, Note), COLine(3, CallsignOf(3, 0), E),
             COLine(MaxHD + 4, CallsignOf(9, 0), Note)>>),
      \* a bare tag, and a comment that runs over two lines
      File(<<CO, COLine(2, CallsignOf(2, 0), Note),
             <<"m", "o", "r", "e", "\n">>,
             COLine(4, CallsignOf(4, 0), Note)>>),
      \* comments of MaxHD + 2 identifiers
      File([k \in 1..(MaxHD + 2) |-> COLine(k, CallsignOf(k, 0), Note)]),
      \* a bare tag before comments of MaxHD + 2 identifiers
      File(<<CO>> \o [k \in 1..(MaxHD + 2) |->
                         COLine(k, CallsignOf(k, 0), Note)]) }

REST_FILES ==
    { [en |-> Absent, am |-> Absent, hs |-> Absent, sc |-> Absent,
       la |-> Absent, sf |-> Absent],
      [en |-> File(<<ENLine(1, W1AW), ENLine(2, CallsignOf(2, 0)),
                     ENSparseLine(3, CallsignOf(3, 0))>>),
       am |-> File(<<AMLine(1, W1AW), AMLine(4, CallsignOf(4, 0))>>),
       hs |-> File(<<HSLine(1, W1AW), HSLine(2, CallsignOf(2, 0)),
                     HSLine(MaxHD + 3, CallsignOf(8, 0))>>),
       sc |-> Absent, la |-> Absent, sf |-> Absent],
      [en |-> File(<<ENLine(1, W1AW), ENSparseLine(1, W1AW),
                     ENLine(MaxHD, CallsignOf(MaxHD, 0))>>),
       am |-> Absent,
       hs |-> FailingFile(<<HSLine(1, W1AW)>>, 1),
       sc |-> File(<<SCLine(2, CallsignOf(2, 0)), SC>>),
       la |-> File(<<LALine(1, W1AW)>>),
       sf |-> File(<<SFLine(3, CallsignOf(3, 0))>>)] }

\* The archives: inner file per record type.
Archive(hd, co, rest) ==
    [rt \in DOMAIN RECORD_TYPES |->
        CASE rt = HD -> hd
          [] rt = EN -> rest.en
          [] rt = AM -> rest.am
          [] rt = HS -> rest.hs
          [] rt = CO -> co
          [] rt = SC -> rest.sc
          [] rt = LA -> rest.la
          [] OTHER   -> rest.sf]

Archives ==
    {Archive(hd, co, rest) : hd \in HD_FILES, co \in CO_FILES, rest \in REST_FILES}

L_AMAT == <<"l", "_", "a", "m", "a", "t">>

L_GMRS == <<"l", "_", "g", "m", "r", "s">>

NoManifest == EmptyDict

NoOutcome == EmptyDict

\* The variables of the specifications of single functions, at rest.
FnIdle ==
    /\ rd_file = Absent
    /\ rd_records = <<>>
    /\ rd_pc = "idle"
    /\ cs_h = 0
    /\ cs_amateur = <<>>
    /\ cs_gmrs = <<>>
    /\ cs_pc = "idle"

\* The variables of a run before its first step.
RunStart ==
    /\ pc = "read"
    /\ loop_i = 1
    /\ loop_j = 1
    /\ all_records = EmptyDict
    /\ selected_usis = {}
    /\ rng = random_seed(seed)
    /\ remaining = 0
    /\ usi_callsign_map = EmptyDict
    /\ output_records = EmptyDict
    /\ stats = EmptyDict
    /\ files = EmptyDict
    /\ manifest = NoManifest

\* main: the arguments, a cache directory, a process.
Init ==
    /\ service_name \in {L_AMAT, L_GMRS}
    /\ count \in {0, 2, MaxCount}
    /\ seed = 42
    /\ zip \in Archives
    /\ hashseed \in 0..MaxHashSeed
    /\ run = 1
    /\ first_run = NoOutcome
    /\ RunStart
    /\ FnIdle

(***************************************************************************)
(* The steps of one run of extract_fixture on a cache directory that holds *)
(* one archive, zip, named service_name.                                   *)
(***************************************************************************)
\* for rt in RECORD_TYPES: records = read_dat_from_zip(...), kept if any
ReadFile ==
    /\ pc = "read"
    /\ LET rt == RECORD_TYPE_KEYS[loop_i]
           records == read_dat_from_zip(zip[rt])
       IN  all_records' = IF records # <<>>
                          THEN DictPut(all_records, rt, records)
                          ELSE all_records
    /\ IF loop_i < Len(RECORD_TYPE_KEYS)
       THEN /\ loop_i' = loop_i + 1
            /\ pc' = "read"
       ELSE /\ loop_i' = 1
            /\ pc' = "check_hd"
    /\ UNCHANGED <<fn_vars, in_vars, run_vars, loop_j, selected_usis, rng, remaining,
                   usi_callsign_map, output_records, stats, files, manifest>>

\* if 'HD' not in all_records: return {}
CheckHD ==
    /\ pc = "check_hd"
    /\ pc' = IF HD \in DOMAIN all_records THEN "select" ELSE "returned"
    /\ UNCHANGED <<fn_vars, in_vars, run_vars, all_records, loop_i, loop_j, selected_usis, rng,
                   remaining, usi_callsign_map, output_records, stats, files,
                   manifest>>

\* select_sample_licenses up to status_counts: the seed, the indexes, the
\* allow-list and remaining
SelectStart ==
    /\ pc = "select"
    /\ rng' = random_seed(seed + Signed(StrHash(service_name)))
    /\ selected_usis' = known_selected(all_records[HD])
    /\ remaining' = count - Cardinality(selected_usis')
    /\ loop_i' = 1
    /\ pc' = "sample"
    /\ UNCHANGED <<fn_vars, in_vars, run_vars, all_records, loop_j, usi_callsign_map,
                   output_records, stats, files, manifest>>

\* One iteration of "for status, target in status_counts.items()".  A
\* ValueError of random.sample is caught nowhere and ends the process.
SampleBucket ==
    /\ pc = "sample"
    /\ LET draw == bucket_draw(all_records[HD], loop_i, remaining, selected_usis)
       IN  IF draw.population = <<>>
           THEN /\ UNCHANGED <<selected_usis, rng>>
                /\ pc' = IF loop_i < Len(STATUS_ORDER) THEN "sample" ELSE "enrich"
           ELSE IF sample_raises(draw.population, draw.k)
           THEN /\ UNCHANGED <<selected_usis, rng>>
                /\ pc' = "raised"
           ELSE LET got == random_sample(draw.population, draw.k, rng)
                IN  /\ selected_usis' = selected_usis \cup Range(got.result)
                    /\ rng' = got.rng
                    /\ pc' = IF loop_i < Len(STATUS_ORDER) THEN "sample" ELSE "enrich"
    /\ loop_i' = IF loop_i < Len(STATUS_ORDER) THEN loop_i + 1 ELSE 1
    /\ UNCHANGED <<fn_vars, in_vars, run_vars, all_records, loop_j, remaining,
                   usi_callsign_map, output_records, stats, files, manifest>>

\* One iteration of "for rt in ['CO', 'HS', 'SC']"
Enrich ==
    /\ pc = "enrich"
    /\ LET rt == EDGE_CASE_TYPES[loop_i]
       IN  IF rt \in DOMAIN all_records
           THEN LET got == enrich_draw(all_records[rt], rt, selected_usis, rng)
                IN  /\ selected_usis' = selected_usis \cup Range(got.result)
                    /\ rng' = got.rng
           ELSE UNCHANGED <<selected_usis, rng>>
    /\ IF loop_i < Len(EDGE_CASE_TYPES)
       THEN /\ loop_i' = loop_i + 1
            /\ pc' = "enrich"
       ELSE /\ loop_i' = 1
            /\ pc' = "filter"
    /\ loop_j' = 1
    /\ UNCHANGED <<fn_vars, in_vars, run_vars, all_records, remaining,
                   usi_callsign_map, output_records, stats, files, manifest>>

\* One iteration of the inner loop of "Extract and anonymize related
\* records": record loop_j of the loop_i-th type of all_records
FilterRecord ==
    /\ pc = "filter"
    /\ loop_i <= Len(KeysInOrder(all_records))
    /\ LET record_type == KeysInOrder(all_records)[loop_i]
           records == all_records[record_type]
           r == records[loop_j]
       IN  /\ IF is_selected(r, selected_usis)
              THEN LET a == anonymize_record(r.raw, service_code_of(service_name),
                                             usi_callsign_map)
                       sofar == IF record_type \in DOMAIN output_records
                                THEN output_records[record_type] ELSE <<>>
                   IN  /\ usi_callsign_map' = a.map
                       /\ output_records' =
                              DictPut(output_records, record_type,
                                      Append(sofar, a.line))
              ELSE UNCHANGED <<usi_callsign_map, output_records>>
           /\ IF loop_j < Len(records)
              THEN /\ loop_j' = loop_j + 1
                   /\ loop_i' = loop_i
              ELSE /\ loop_j' = 1
                   /\ loop_i' = loop_i + 1
    /\ UNCHANGED <<fn_vars, in_vars, run_vars, pc, all_records, selected_usis, rng,
                   remaining, stats, files, manifest>>

\* "Write output files" and the return of stats
WriteFiles ==
    /\ pc = "filter"
    /\ loop_i > Len(KeysInOrder(all_records))
    /\ files' = [rt \in DOMAIN output_records |->
                    [k \in 1..Len(output_records[rt]) |->
                        written_line(output_records[rt][k])]]
    /\ stats' = stats_of(output_records)
    /\ pc' = "returned"
    /\ UNCHANGED <<fn_vars, in_vars, run_vars, all_records, loop_i, loop_j, selected_usis, rng,
                   remaining, usi_callsign_map, output_records, manifest>>

\* extract_fixture after extract_service returned: all_stats and the manifest
WriteManifest ==
    /\ pc = "returned"
    /\ manifest' = manifest_of(count, service_name, stats)
    /\ pc' = "done"
    /\ UNCHANGED <<fn_vars, in_vars, run_vars, all_records, loop_i, loop_j, selected_usis, rng,
                   remaining, usi_callsign_map, output_records, stats, files>>

\* What a run leaves behind: how it ended, the files and the manifest.
Outcome == [ended |-> pc, selected |-> selected_usis, files |-> files,
            manifest |-> manifest]

\* A second, independent run over the same cache directory with the same
\* count and seed: a new process, with its own hash seed.
SecondRun ==
    /\ pc \in {"done", "raised"}
    /\ run = 1
    /\ run' = 2
    /\ first_run' = Outcome
    /\ \E h \in 0..MaxHashSeed : hashseed' = h
    /\ pc' = "read"
    /\ loop_i' = 1
    /\ loop_j' = 1
    /\ all_records' = EmptyDict
    /\ selected_usis' = {}
    /\ rng' = random_seed(seed)
    /\ remaining' = 0
    /\ usi_callsign_map' = EmptyDict
    /\ output_records' = EmptyDict
    /\ stats' = EmptyDict
    /\ files' = EmptyDict
    /\ manifest' = NoManifest
    /\ UNCHANGED <<fn_vars, in_vars>>

Next ==
    \/ ReadFile
    \/ CheckHD
    \/ SelectStart
    \/ SampleBucket
    \/ Enrich
    \/ FilterRecord
    \/ WriteFiles
    \/ WriteManifest
    \/ SecondRun

Spec == Init /\ [][Next]_vars

(***************************************************************************)
(* SpecSample: select_sample_licenses on lists of primary records with     *)
(* distinct identifiers: nA active, then nE expired, then nC cancelled,    *)
(* the first `known` of them carrying callsigns of the allow-list.         *)
(***************************************************************************)
SampleStatusOf(n, nA, nE) ==
    IF n <= nA THEN <<"A">> ELSE IF n <= nA + nE THEN <<"E">> ELSE <<"C">>

SampleRecords(nA, nE, nC, known) ==
    [n \in 1..(nA + nE + nC) |->
        RecordOf(HDLine(n, CallsignOf(n, known), SampleStatusOf(n, nA, nE)))]

InitSample ==
    /\ service_name \in {L_AMAT}
    /\ count \in 0..MaxSampleCount
    /\ seed = 42
    /\ zip = [rt \in DOMAIN RECORD_TYPES |-> Absent]
    /\ hashseed = 0
    /\ run = 1
    /\ first_run = NoOutcome
    /\ pc = "select"
    /\ loop_i = 1
    /\ loop_j = 1
    /\ \E nA \in {0, 2, MaxActive}, nE \in {0, MaxExpired},
          nC \in {0, MaxCancelled}, known \in 0..2 :
           /\ nA + nE + nC >= 1
           /\ all_records = DictPut(EmptyDict, HD, SampleRecords(nA, nE, nC, known))
    /\ selected_usis = {}
    /\ rng = random_seed(seed)
    /\ remaining = 0
    /\ usi_callsign_map = EmptyDict
    /\ output_records = EmptyDict
    /\ stats = EmptyDict
    /\ files = EmptyDict
    /\ manifest = NoManifest
    /\ FnIdle

NextSample ==
    \/ SelectStart
    \/ SampleBucket

SpecSample == InitSample /\ [][NextSample]_vars

(***************************************************************************)
(* SpecRead: read_dat_from_zip on every stream of at most MaxLines lines   *)
(* drawn from LineSamples, with every place of failure.                    *)
(***************************************************************************)
LineSamples ==
    { <<"C", "O", "|", "1", "|", "a", "\n">>,       \* a primary line
      <<"H", "D", "|", "2", "\r", "\n">>,           \* a primary line, CRLF
      <<"C", "O">>,                                 \* a primary line, bare tag
      <<"A", "D", "|", "3", " ", "\n">>,            \* a known prefix, no USI type
      <<"m", "o", "r", "e", " ", "x", " ", "\n">>,  \* a continuation
      <<" ", "H", "D", "|", "b", "\n">>,            \* a continuation: " HD"
      <<"|", "z", "\n">>,                           \* an empty leading token
      <<" ", "\n">> }                               \* a blank line

RECURSIVE SeqsUpTo(_, _)
\* The sequences over S of length at most n.
SeqsUpTo(S, n) ==
    IF n = 0 THEN {<<>>}
    ELSE LET shorter == SeqsUpTo(S, n - 1)
         IN  shorter \cup {Append(s, x) : s \in shorter, x \in S}

\* The variables of a run, at rest.
RunIdle ==
    /\ service_name = L_AMAT
    /\ count = 0
    /\ seed = 42
    /\ zip = [rt \in DOMAIN RECORD_TYPES |-> Absent]
    /\ hashseed = 0
    /\ run = 1
    /\ first_run = NoOutcome
    /\ pc = "idle"
    /\ loop_i = 1
    /\ loop_j = 1
    /\ all_records = EmptyDict
    /\ selected_usis = {}
    /\ rng = random_seed(seed)
    /\ remaining = 0
    /\ usi_callsign_map = EmptyDict
    /\ output_records = EmptyDict
    /\ stats = EmptyDict
    /\ files = EmptyDict
    /\ manifest = NoManifest

InitRead ==
    /\ \E lines \in SeqsUpTo(LineSamples, MaxLines) :
       \E failAt \in 0..(Len(lines) + 1), present \in BOOLEAN :
           rd_file = [present |-> present, lines |-> lines,
                      failAt |-> IF present THEN failAt ELSE 0]
    /\ rd_records = <<>>
    /\ rd_pc = "call"
    /\ cs_h = 0
    /\ cs_amateur = <<>>
    /\ cs_gmrs = <<>>
    /\ cs_pc = "idle"
    /\ RunIdle

CallReadDat ==
    /\ rd_pc = "call"
    /\ rd_records' = read_dat_from_zip(rd_file)
    /\ rd_pc' = "returned"
    /\ UNCHANGED <<rd_file, cs_vars, in_vars, run_vars, pipe_vars>>

NextRead == CallReadDat

SpecRead == InitRead /\ [][NextRead]_vars

(***************************************************************************)
(* SpecCallsign: the two callsign formats on a range of hash values of     *)
(* both signs.                                                             *)
(***************************************************************************)
HashSamples == {k * 40009 + 7 : k \in (-MaxHashK)..MaxHashK}

InitCallsign ==
    /\ cs_h \in HashSamples
    /\ cs_amateur = <<>>
    /\ cs_gmrs = <<>>
    /\ cs_pc = "call"
    /\ rd_file = Absent
    /\ rd_records = <<>>
    /\ rd_pc = "idle"
    /\ RunIdle

GenerateCallsigns ==
    /\ cs_pc = "call"
    /\ cs_amateur' = amateur_callsign_of_hash(cs_h)
    /\ cs_gmrs' = gmrs_callsign_of_hash(cs_h)
    /\ cs_pc' = "returned"
    /\ UNCHANGED <<cs_h, rd_vars, in_vars, run_vars, pipe_vars>>

NextCallsign == GenerateCallsigns

SpecCallsign == InitCallsign /\ [][NextCallsign]_vars

(***************************************************************************)
(* The properties.                                                         *)
(***************************************************************************)
\* The identifier of a written line, as get_usi gives it.
UsiOfLine(line) ==
    LET p == parse_dat_line(line) IN get_usi(p.record_type, p.fields)

\* The identifiers of the lines of one output file (none if it is not written).
UsisWritten(rt) ==
    IF rt \in DOMAIN files
    THEN {UsiOfLine(files[rt][k]) : k \in 1..Len(files[rt])}
    ELSE {}

\* extract_service has run to its end.
ServiceRan == pc \in {"returned", "done"} /\ files # EmptyDict

\* C1: after extract_service ran, every record of an auxiliary output file
\* that has an identifier has that of some record of the HD output file.
C1_ReferentialIntegrity ==
    ServiceRan =>
        \A rt \in DOMAIN files \ {HD} :
            UsisWritten(rt) \ {None} \subseteq UsisWritten(HD)

\* C2: the second run, a new process over the same cache directory with the
\* same count and seed, ends as the first did, with the same selection, the
\* same output files and the same manifest.
C2_Determinism ==
    (run = 2 /\ pc \in {"done", "raised"}) => Outcome = first_run

\* The output lines of all types, as a set of [rt, k].
OutputPlaces ==
    UNION {{<<rt, k>> : k \in 1..Len(output_records[rt])} :
              rt \in DOMAIN output_records}

\* The column that holds the callsign in a line of this type, which the
\* rewrite of the type sets whenever the line is long enough (columns are
\* 0-indexed as in the program).  In an HS, SC, SF or LA line the callsign
\* is what looks like one in column 3 or 4.
CallsignColumn(record_type) == IF record_type = CO THEN 3 ELSE 4

\* Every callsign written for an identifier is the one the context holds.
C3_WrittenFromContext ==
    \A p \in OutputPlaces :
        LET parsed == parse_dat_line(output_records[p[1]][p[2]])
            rt == parsed.record_type
            fields == parsed.fields
        IN  /\ (rt \in {HD, EN, AM, CO} /\ Len(fields) > CallsignColumn(rt)) =>
                   /\ fields[2] \in DOMAIN usi_callsign_map
                   /\ fields[CallsignColumn(rt) + 1] =
                          usi_callsign_map[fields[2]]
            /\ rt \in {HS, SC, SF, LA} =>
                   \A c \in {3, 4} :
                       LooksLikeCallsign(fields, c) =>
                           /\ fields[2] \in DOMAIN usi_callsign_map
                           /\ fields[c + 1] = usi_callsign_map[fields[2]]

\* The name, address and registration number columns of an EN line.
EN_SYNTHETIC_COLUMNS == {7, 8, 9, 10, 15, 16, 17, 18, 22}

\* Two EN lines of one identifier agree on every synthetic column that both
\* hold (a column left empty stays empty).
C3_SameNameAndAddress ==
    EN \in DOMAIN output_records =>
        \A k \in 1..Len(output_records[EN]) :
            \A m \in (k + 1)..Len(output_records[EN]) :
                LET a == parse_dat_line(output_records[EN][k])
                    b == parse_dat_line(output_records[EN][m])
                IN  (/\ a.record_type = EN
                     /\ b.record_type = EN
                     /\ Len(a.fields) > 1
                     /\ Len(b.fields) > 1
                     /\ a.fields[2] = b.fields[2]) =>
                        \A c \in EN_SYNTHETIC_COLUMNS :
                            (/\ Len(a.fields) > c
                             /\ Len(b.fields) > c
                             /\ a.fields[c + 1] # <<>>
                             /\ b.fields[c + 1] # <<>>) =>
                                a.fields[c + 1] = b.fields[c + 1]

\* Within a run, the callsign the context holds for an identifier never
\* changes.
C3_SetOnce ==
    run' = run =>
        \A u \in DOMAIN usi_callsign_map :
            /\ u \in DOMAIN usi_callsign_map'
            /\ usi_callsign_map'[u] = usi_callsign_map[u]

\* C3: within one dataset's processing the callsign of an identifier is set
\* once and never changes, every callsign written for it is that one, and
\* the name, address and registration number written for it are the same in
\* all its records.
C3_AnonymizationConsistency ==
    /\ [](C3_WrittenFromContext /\ C3_SameNameAndAddress)
    /\ [][C3_SetOnce]_vars

\* C3 witness: an identifier with records of two types written, one of them
\* two EN records, in a context that holds two identifiers.
C3_Witness ==
    /\ pc = "returned"
    /\ Cardinality(DOMAIN usi_callsign_map) >= 2
    /\ \E u \in DOMAIN usi_callsign_map :
        /\ HD \in DOMAIN output_records
        /\ EN \in DOMAIN output_records
        /\ \E k \in 1..Len(output_records[HD]) :
               UsiOfLine(output_records[HD][k]) = u
        /\ \E k \in 1..Len(output_records[EN]), m \in 1..Len(output_records[EN]) :
               /\ k # m
               /\ UsiOfLine(output_records[EN][k]) = u
               /\ UsiOfLine(output_records[EN][m]) = u

\* The claim's reading of a line.
LeadingToken(line) == Split(RStrip(line, CRLF), "|")[1]

IsBlank(line) == Strip(line) = <<>>

IsPrimary(line) ==
    ~IsBlank(line) /\ LeadingToken(line) \in VALID_RECORD_PREFIXES

IsContinuation(line) ==
    ~IsBlank(line) /\ LeadingToken(line) \notin VALID_RECORD_PREFIXES

RECURSIVE Reassembled(_, _)
\* The raw texts the claim expects of the first n lines: one per primary
\* line, each with the trimmed texts of its continuation lines appended.
Reassembled(lines, n) ==
    IF n = 0 THEN <<>>
    ELSE LET before == Reassembled(lines, n - 1)
             line == lines[n]
         IN  IF IsPrimary(line) THEN Append(before, line)
             ELSE IF IsContinuation(line) /\ before # <<>>
             THEN [before EXCEPT ![Len(before)] =
                      RStrip(@, CRLF) \o <<" ">> \o Strip(line)]
             ELSE before

\* C4: a stream read to its end yields one record per primary line, whose
\* raw text is the primary line's with the trimmed text of each of its
\* continuation lines appended after a single space; no continuation line
\* is a record of its own.
C4_Reassembly ==
    (rd_pc = "returned" /\ rd_file.present /\ rd_file.failAt = 0) =>
        /\ Len(rd_records) =
               Cardinality({n \in 1..Len(rd_file.lines) :
                               IsPrimary(rd_file.lines[n])})
        /\ Len(rd_records) = Len(Reassembled(rd_file.lines, Len(rd_file.lines)))
        /\ \A k \in 1..Len(rd_records) :
               rd_records[k].raw =
                   Reassembled(rd_file.lines, Len(rd_file.lines))[k]

\* C5: no absent identifier enters the selection, and no record without an
\* identifier is written.
C5_AbsentMeansExclusion ==
    /\ None \notin selected_usis
    /\ \A rt \in DOMAIN files : None \notin UsisWritten(rt)

\* The records of one input file that the filter keeps.
Kept(rt) ==
    SelectSeq(all_records[rt],
              LAMBDA r : get_usi(r.type, r.fields) \in selected_usis)

\* The output file of one type holds one line per kept record, in order,
\* each of the type and identifier of its record, and stats counts them.
C6_ExactFile(rt) ==
    IF Kept(rt) = <<>>
    THEN rt \notin DOMAIN files /\ rt \notin DOMAIN stats
    ELSE /\ rt \in DOMAIN files
         /\ rt \in DOMAIN stats
         /\ Len(files[rt]) = Len(Kept(rt))
         /\ stats[rt] = Len(Kept(rt))
         /\ \A k \in 1..Len(Kept(rt)) :
                LET p == parse_dat_line(files[rt][k])
                IN  /\ p.record_type = Kept(rt)[k].type
                    /\ get_usi(p.record_type, p.fields) =
                           get_usi(Kept(rt)[k].type, Kept(rt)[k].fields)
                    /\ Len(p.fields) = Len(Kept(rt)[k].fields)

TruncShare(r, tenths) ==
    IF r >= 0 THEN (tenths * r) \div 10 ELSE -((tenths * (-r)) \div 10)

\* C7: a bucket's step that returns, with remaining >= 0, adds
\* min(trunc(share of remaining), available) identifiers to the selection.
C7_StatusStratification ==
    [][(pc = "sample" /\ pc' # "raised" /\ remaining >= 0) =>
          Cardinality(selected_usis' \ selected_usis) =
              Min(TruncShare(remaining, STATUS_TENTHS[loop_i]),
                  Len(available_of(all_records[HD], STATUS_ORDER[loop_i],
                                   selected_usis)))]_vars

\* C8: select_sample_licenses does not raise.
C8_SamplerNeverRaises == pc # "raised"

\* s[a..b] are all uppercase letters, all digits.
AllLetters(s, a, b) == \A k \in a..b : s[k] \in Range(UpperLetters)

AllDigits(s, a, b) == \A k \in a..b : s[k] \in Range(DigitChars)

\* s is p letters followed by q digits.
LettersThenDigits(s, p, q) ==
    Len(s) = p + q /\ AllLetters(s, 1, p) /\ AllDigits(s, p + 1, p + q)

\* [A-Z]{1,2}[0-9][A-Z]{1,3}
IsAmateurFormat(s) ==
    \E p \in 1..2, q \in 1..3 :
        /\ Len(s) = p + 1 + q
        /\ AllLetters(s, 1, p)
        /\ AllDigits(s, p + 1, p + 1)
        /\ AllLetters(s, p + 2, p + 1 + q)

\* C9 as claimed: the amateur callsign is one or two letters, a digit and
\* one to three letters; the GMRS callsign is two or three letters followed
\* by three or four digits.
C9_FormatValidity ==
    cs_pc = "returned" =>
        /\ IsAmateurFormat(cs_amateur)
        /\ \E p \in 2..3, q \in 3..4 : LettersThenDigits(cs_gmrs, p, q)

\* C9 as amended: the amateur callsign is one or two letters, a digit and
\* one to three letters; the GMRS callsign is three letters followed by four
\* digits (legacy) or four letters followed by three digits (modern).
C9_FormatValidityAmended ==
    cs_pc = "returned" =>
        /\ IsAmateurFormat(cs_amateur)
        /\ \/ LettersThenDigits(cs_gmrs, 3, 4)
           \/ LettersThenDigits(cs_gmrs, 4, 3)

\* C9 witness: a negative hash value that gives the modern GMRS format and
\* the longest amateur format.
C9_Witness ==
    /\ cs_pc = "returned"
    /\ cs_h < 0
    /\ LettersThenDigits(cs_gmrs, 4, 3)
    /\ Len(cs_amateur) = 6

\* C10: when reading the inner file raised, no record of it is returned.
C10_FailureContributesNothing ==
    (rd_pc = "returned" /\ rd_file.failAt # 0) => rd_records = <<>>

\* The callsign of an identifier anonymized first, before any other.
CallsignWhenFirst(usi) ==
    IF service_code_of(service_name) = "ZA"
    THEN generate_gmrs_callsign(usi, 0)
    ELSE generate_amateur_callsign(usi, 0)

\* C11: the callsign the context holds for an identifier is the one the
\* identifier gets when no other identifier was anonymized before it: it
\* depends on the identifier and the service family only.
C11_CallsignOfIdentifierOnly ==
    \A u \in DOMAIN usi_callsign_map :
        usi_callsign_map[u] = CallsignWhenFirst(u)

\* The columns of an EN line that the rewrite fills: display name, first
\* name, middle initial, last name, phone, email, street, city, state, zip
\* and registration number.
EN_REWRITTEN_COLUMNS == {7, 8, 9, 10, 12, 14, 15, 16, 17, 18, 22}

\* C12: in every EN line the anonymizer returned, each rewritten column that
\* is empty in the input line is still empty.
C12_EmptyStaysEmpty ==
    EN \in DOMAIN output_records =>
        \A k \in 1..Len(output_records[EN]) :
            LET before == Kept(EN)[k]
                after == parse_dat_line(output_records[EN][k])
            IN  before.type = EN =>
                    \A c \in EN_REWRITTEN_COLUMNS :
                        (Len(before.fields) > c /\ before.fields[c + 1] = <<>>)
                            => after.fields[c + 1] = <<>>

RECURSIVE selection_after(_, _, _, _)
\* The sampler's selection and generator after its first b buckets, where
\* no draw raised.
selection_after(hd_records, b, rem, start) ==
    IF b = 0 THEN start
    ELSE LET st == selection_after(hd_records, b - 1, rem, start)
             draw == bucket_draw(hd_records, b, rem, st.selected)
         IN  IF draw.population = <<>> THEN st
             ELSE LET got == random_sample(draw.population, draw.k, st.rng)
                  IN  [selected |-> st.selected \cup Range(got.result),
                       rng |-> got.rng]

\* What select_sample_licenses returns, where it does not raise.
select_sample_licenses(hd_records, name, n, s) ==
    LET known == known_selected(hd_records)
    IN  selection_after(hd_records, Len(STATUS_ORDER),
                        n - Cardinality(known),
                        [selected |-> known,
                         rng |-> random_seed(s + Signed(StrHash(name)))]).selected

\* What the sampler returned in this run.
SamplerSelection ==
    select_sample_licenses(all_records[HD], service_name, count, seed)

\* The identifiers of one type's records that are not selected (an absent
\* identifier counts as the value get_usi returns for it).
EnrichmentPool(rt) ==
    IF rt \in DOMAIN all_records
    THEN {get_usi(rt, all_records[rt][k].fields) :
             k \in 1..Len(all_records[rt])} \ selected_usis
    ELSE {}

\* One step of the enrichment adds min(5, n) identifiers of the type's
\* records and removes none.
C13_EnrichStep ==
    pc = "enrich" =>
        LET added == selected_usis' \ selected_usis
            pool == EnrichmentPool(EDGE_CASE_TYPES[loop_i])
        IN  /\ selected_usis \subseteq selected_usis'
            /\ added \subseteq pool
            /\ Cardinality(added) = Min(5, Cardinality(pool))

\* After the enrichment the selection holds what the sampler returned and
\* at most 15 identifiers more.
C13_AtMostFifteenMore ==
    (pc \in {"filter", "returned", "done"} /\ HD \in DOMAIN all_records) =>
        /\ SamplerSelection \subseteq selected_usis
        /\ Cardinality(selected_usis \ SamplerSelection) <= 15

=============================================================================
